---- MODULE Spec2Model ----
(***************************************************************************)
(* Background task orchestrator of dbx-research-task-app:                  *)
(*   tasks/manager.py  TaskManager and the two in-memory registries        *)
(*   tasks/runner.py   run_research_task, _scan_output_files               *)
(*   api/routes.py     start_research_task, stream_task_updates,           *)
(*                     cancel_task                                         *)
(*   db/database.py    get_db_session (commit on exit of the scope)        *)
(*                                                                         *)
(* Everything runs on one asyncio event loop: the code between two awaits  *)
(* is one atomic step.  A Store scope (async with get_db_session(): get    *)
(* the row, assign its attributes, commit on exit) takes effect as one     *)
(* transaction at its commit; the code after the scope is a later step of  *)
(* the coroutine, so other coroutines run in between.  A coroutine         *)
(* cancelled before the commit of a scope leaves the Store untouched.      *)
(* asyncio.Queue() is unbounded, so `await queue.put(..)` never suspends   *)
(* and belongs to the step that executes it.                               *)
(*                                                                         *)
(* Progress is counted in tenths (0.1 = 1, 0.9 = 9, 1.0 = 10).  Timestamps *)
(* are readings of a logical clock that never runs backwards: it ticks     *)
(* after every utcnow() stored in completed_at, so that two completions    *)
(* never carry the same reading; 0 stands for None.                        *)
(***************************************************************************)
EXTENDS Integers, Sequences, FiniteSets, TLC

\* ---------------------------------------------------------------- bounds
\* tasks created, coroutines spawned, calls made by the callers, events
\* emitted by all the workers together; events emitted when the only call
\* is one POST /tasks
MaxTasks == 1
MaxPoolTasks == 2
MaxRunners == 2
MaxRequests == 3
MaxEvents == 2
MaxSoloEvents == 12
MaxPoolEvents == 2
MaxContentEvents == 5
MaxQuestions == 2

\* ------------------------------------------------------ program constants
ProgressCap == 9
ProgressStep == 1
ProgressComplete == 10

SessionIds == {"s1"}
ToolNames == {"WebSearch"}
ErrorMessages == {"rate limited"}
FaultMessage == "fault"
UsageOfDone == "usage"
CostOfDone == "cost"
None == "None"

\* Task ids: 1..MaxTasks are handed out by create_task (uuid4), 0 is an id
\* that names no task.
TaskIds == 0..MaxPoolTasks

Terminal == {"completed", "failed", "cancelled"}
TaskStatus == {"pending", "running"} \cup Terminal

Min(a, b) == IF a <= b THEN a ELSE b

\* ------------------------------------------------------------------ state
VARIABLES
    sessions,        \* Store: the Session rows
    tasks,           \* Store: ResearchTask rows, tasks[i] has id i
    output_files,    \* Store: OutputFile rows (a sequence, no uniqueness)
    disk,            \* relative paths of the regular files in output_dir
    running_tasks,   \* _running_tasks: task id -> runner (0: no entry)
    task_streams,    \* _task_streams: task id -> queue (0: no entry)
    queues,          \* the asyncio.Queue objects ever created
    runners,         \* the run_research_task coroutines ever spawned
    cancels,         \* the TaskManager.cancel_task calls that passed the check
    observers,       \* the stream_task_updates requests
    now,             \* logical clock behind datetime.utcnow()
    requests,        \* number of calls made by the callers so far
    events_left,     \* number of events the workers may still emit
    task_cap,        \* number of tasks the callers may create
    posts,           \* the POST /tasks requests and their responses
    emitted,         \* the worker events and the faults that lead to a queue
                     \* event, in the order in which they occurred
    tokens,          \* task id -> the texts of the token events the workers
                     \* of the task have emitted, in emission order
    written,         \* file of output_dir -> the task whose worker wrote it
                     \* last (0: the file was not written in this run)
    lakebase,        \* research_job.py: the row of ai_chatbot."ResearchTask"
                     \* with the id the job was launched for
    job,             \* research_job.py: the ResearchJobRunner.run call
    volume           \* research_job.py: the files of the UC Volume

vars == <<sessions, tasks, output_files, disk, running_tasks, task_streams,
          queues, runners, cancels, observers, now, requests, events_left,
          task_cap, posts, emitted, tokens, written, lakebase, job, volume>>

store == <<sessions, tasks, output_files>>

\* the state of the Lakeflow job, a process of its own with its own database
research_job == <<lakebase, job, volume>>

\* ------------------------------------------------------------ Store rows
NoRow ==
    [session_id |-> None, status |-> "absent", progress |-> 0,
     progress_message |-> None, started_at |-> 0, completed_at |-> 0,
     error_message |-> None, last_streamed_content |-> <<>>,
     usage_stats |-> None, total_cost_usd |-> None]

NewTask(s) == [NoRow EXCEPT !.session_id = s, !.status = "pending"]

\* db.get(ResearchTask, task_id)
GetTask(t) == IF t \in 1..Len(tasks) THEN tasks[t] ELSE NoRow

Exists(row) == row.status # "absent"

\* `task = await db.get(ResearchTask, task_id); if task: <assignments>` and
\* the commit at the exit of the scope; row is the task as assigned
UpdateTask(t, row) ==
    IF Exists(GetTask(t)) THEN [tasks EXCEPT ![t] = row] ELSE tasks

\* datetime.utcnow() inside `if task:` of a scope that stamps completed_at
Tick(t) == IF Exists(GetTask(t)) THEN now + 1 ELSE now

\* ----------------------------------------------------------- queue events
ProgressEvent(p, m) == [type |-> "progress", progress |-> p, message |-> m]
DoneEvent(s) == [type |-> "done", status |-> s]
ErrorEvent(m) == [type |-> "error", message |-> m]

IsTerminalEvent(e) == e.type \in {"done", "error"}

\* `if task_id in _task_streams: await _task_streams[task_id].put(event)`
Put(t, e) ==
    IF task_streams[t] # 0
    THEN [queues EXCEPT ![task_streams[t]] = Append(@, e)]
    ELSE queues

\* ------------------------------------------------------------------- Init
InitFrom(events, cap, rows, files) ==
    /\ sessions = rows
    /\ tasks = <<>>
    /\ output_files = <<>>
    /\ disk = files
    /\ running_tasks = [t \in TaskIds |-> 0]
    /\ task_streams = [t \in TaskIds |-> 0]
    /\ queues = <<>>
    /\ runners = <<>>
    /\ cancels = <<>>
    /\ observers = <<>>
    /\ now = 1
    /\ requests = 0
    /\ events_left = events
    /\ task_cap = cap
    /\ posts = <<>>
    /\ emitted = <<>>
    /\ tokens = [t \in TaskIds |-> <<>>]
    /\ written = {}

\* ai_chatbot."ResearchTask" row as the application stores it for a job
LakebaseRow(status) ==
    [status |-> status, job_run_id |-> None, output_path |-> None,
     error_message |-> None, completed_at |-> FALSE, progress |-> <<>>]

\* `scope`: the number of questions it lists; was_cancelled records whether
\* the stored status was cancelled when run was called
NewJob(pc, questions, was_cancelled) ==
    [pc |-> pc, questions |-> questions, i |-> 0,
     was_cancelled |-> was_cancelled]

\* no Lakeflow job is launched
NoJob ==
    /\ lakebase = LakebaseRow("pending")
    /\ job = NewJob("idle", 0, FALSE)
    /\ volume = {}

\* an empty Store and an empty output directory
InitWith(events) == InitFrom(events, MaxTasks, {}, {}) /\ NoJob

Init == InitWith(MaxEvents)

\* ------------------------------------------------------- local processes
NewRunner(t) ==
    [task |-> t, pc |-> "start", sess |-> None, tool_count |-> 0,
     acc |-> <<>>, arg |-> None, adds |-> {}]

At(rec, pc) == [rec EXCEPT !.pc = pc]

\* the position of a coroutine
RunnerAt(r, pc) == r \in DOMAIN runners /\ runners[r].pc = pc
CancelAt(c, pc) == c \in DOMAIN cancels /\ cancels[c].pc = pc
ObserverAt(o, pc) == o \in DOMAIN observers /\ observers[o].pc = pc

Alive(r) == runners[r].pc \notin {"done", "cancelled"}

\* asyncio.Task.cancel(): CancelledError is thrown into the coroutine at the
\* await it is suspended on; `except asyncio.CancelledError: raise` lets it
\* end there, and a scope left this way is not committed.
\* a coroutine that catches CancelledError and goes on
CancelRunnerIgnored(r) == runners

CancelRunner(r) ==
    IF r # 0 /\ Alive(r)
    THEN [runners EXCEPT ![r] = [At(@, "cancelled") EXCEPT !.adds = {}]]
    ELSE runners

\* the ids a caller can name: those create_task returned, and the unknown id
KnownIds == 0..Len(tasks)

\* an HTTP request arrives at one of the routes
Request(t) ==
    /\ t \in KnownIds
    /\ requests < MaxRequests
    /\ requests' = requests + 1
    /\ UNCHANGED events_left

\* ------------------------------------------------- TaskManager.start_task
\* No check of any kind: a new coroutine, and both registry entries are
\* overwritten.
StartTask(t) ==
    /\ Len(runners) < MaxRunners
    /\ runners' = Append(runners, NewRunner(t))
    /\ running_tasks' = [running_tasks EXCEPT ![t] = Len(runners) + 1]
    /\ queues' = Append(queues, <<>>)
    /\ task_streams' = [task_streams EXCEPT ![t] = Len(queues) + 1]

\* ------------------------------------------------ TaskManager.create_task
\* Session(id=session_id): the other columns take their defaults
NewSession(s) == [id |-> s, created_at |-> now]

HasSession(s) == \E row \in sessions : row.id = s

\* create_task that writes the Session row whether or not it exists
CreateTaskUpsert(s) ==
    /\ Len(tasks) < task_cap
    /\ sessions' = {row \in sessions : row.id # s} \cup {NewSession(s)}
    /\ tasks' = Append(tasks, NewTask(s))

\* the Session row is added when absent; the task is PENDING
CreateTask(s) ==
    /\ Len(tasks) < task_cap
    /\ sessions' = IF HasSession(s) THEN sessions
                   ELSE sessions \cup {NewSession(s)}
    /\ tasks' = Append(tasks, NewTask(s))

\* ------------------------------------------ routes.start_research_task
Prompts == {"Summarize X"}
Modes == {"background", "live"}

\* a request body and the response to it (task_id 0: none)
NewPost(s, prompt, mode, code, t) ==
    [session_id |-> s, prompt |-> prompt, mode |-> mode,
     status_code |-> code, task_id |-> t]

Respond(post) == posts' = Append(posts, post)

\* the request body is used without the check of its fields
PostTaskUnvalidated(s, prompt, mode) ==
    /\ Request(0)
    /\ s = None \/ prompt = None
    /\ CreateTask(s)
    /\ Respond(NewPost(s, prompt, mode, 200, Len(tasks) + 1))
    /\ UNCHANGED <<output_files, disk, running_tasks, task_streams, queues,
                   runners, cancels, observers, now, emitted, task_cap, tokens, written, research_job>>

\* `if not session_id or not prompt`: 400, before anything is done
PostTaskInvalid(s, prompt, mode) ==
    /\ Request(0)
    /\ s = None \/ prompt = None
    /\ Respond(NewPost(s, prompt, mode, 400, 0))
    /\ UNCHANGED <<store, disk, running_tasks, task_streams, queues,
                   runners, cancels, observers, now, emitted, task_cap, tokens, written, research_job>>

\* mode "background" without the call of start_task
PostTaskBackgroundUnstarted(s) ==
    /\ Request(0)
    /\ CreateTask(s)
    /\ \E prompt \in Prompts :
           Respond(NewPost(s, prompt, "background", 200, Len(tasks) + 1))
    /\ UNCHANGED <<output_files, disk, running_tasks, task_streams, queues,
                   runners, cancels, observers, now, emitted, task_cap, tokens, written, research_job>>

\* mode "background": create_task, then start_task
PostTaskBackground(s) ==
    /\ Request(0)
    /\ CreateTask(s)
    /\ StartTask(Len(tasks) + 1)
    /\ \E prompt \in Prompts :
           Respond(NewPost(s, prompt, "background", 200, Len(tasks) + 1))
    /\ UNCHANGED <<output_files, disk, cancels, observers, now,
                   emitted, task_cap, tokens, written, research_job>>

\* any other mode: create_task only
PostTaskLive(s) ==
    /\ Request(0)
    /\ CreateTask(s)
    /\ \E prompt \in Prompts :
           Respond(NewPost(s, prompt, "live", 200, Len(tasks) + 1))
    /\ UNCHANGED <<output_files, disk, running_tasks, task_streams, queues,
                   runners, cancels, observers, now, emitted, task_cap, tokens, written, research_job>>

\* ------------------------------------------------ routes.sessions_delete
\* the rows that `cascade="all, delete-orphan"` deletes with the Session
OwnedBy(row, s) == row.session_id = s

\* DELETE /sessions/{session_id}: 404 when the Session is absent; otherwise
\* the Session is deleted with its tasks and its output files
SessionsDelete(s) ==
    /\ Request(0)
    /\ IF HasSession(s)
       THEN /\ sessions' = {row \in sessions : row.id # s}
            /\ tasks' = [t \in DOMAIN tasks |->
                             IF OwnedBy(tasks[t], s) THEN NoRow ELSE tasks[t]]
            /\ output_files' = SelectSeq(output_files,
                                         LAMBDA row : ~OwnedBy(row, s))
       ELSE UNCHANGED store
    /\ UNCHANGED <<disk, running_tasks, task_streams, queues, runners,
                   cancels, observers, now, emitted, posts, task_cap, tokens, written, research_job>>

\* ------------------------------------------- runner.run_research_task
SetRunner(r, rec) == runners' = [runners EXCEPT ![r] = rec]

\* the first scope without `if not task: return`
RunnerStartUnchecked(r) ==
    /\ RunnerAt(r, "start")
    /\ LET t == runners[r].task
           task == GetTask(t)
       IN /\ SetRunner(r, [runners[r] EXCEPT
                 !.pc = "loop", !.sess = task.session_id])
          /\ tasks' = UpdateTask(t, [task EXCEPT
                 !.status = "running",
                 !.started_at = now,
                 !.progress = 0,
                 !.progress_message = "Starting research..."])
    /\ UNCHANGED <<sessions, output_files, disk, running_tasks, task_streams,
                   queues, cancels, observers, now, requests, events_left,
                   emitted, posts, task_cap, tokens, written, research_job>>

\* first scope: an absent task ends the coroutine; otherwise the task is
\* RUNNING with progress 0 when the scope is left
RunnerStart(r) ==
    /\ RunnerAt(r, "start")
    /\ LET t == runners[r].task
           task == GetTask(t)
       IN IF ~Exists(task)
          THEN /\ SetRunner(r, At(runners[r], "done"))
               /\ tasks' = tasks
          ELSE /\ SetRunner(r, [runners[r] EXCEPT
                      !.pc = "loop", !.sess = task.session_id])
               /\ tasks' = UpdateTask(t, [task EXCEPT
                      !.status = "running",
                      !.started_at = now,
                      !.progress = 0,
                      !.progress_message = "Starting research..."])
    /\ UNCHANGED <<sessions, output_files, disk, running_tasks, task_streams,
                   queues, cancels, observers, now, requests, events_left,
                   emitted, posts, task_cap, tokens, written, research_job>>

\* the worker emits an event that the coroutine turns into queue event e
Emitted(r, e) ==
    emitted' = Append(emitted, [task |-> runners[r].task, event |-> e])

\* The worker's stream is an input: at "loop" the coroutine awaits the next
\* event, and the worker may emit any event while the model has emissions
\* still allowed.
Emit(r) ==
    /\ RunnerAt(r, "loop")
    /\ events_left > 0
    /\ events_left' = events_left - 1

\* len(accumulated_content): token texts are kept by their length
RECURSIVE Chars(_)
Chars(acc) == IF acc = <<>> THEN 0 ELSE Head(acc) + Chars(Tail(acc))

TokenLengths == {600}
SnapshotBoundary == 1000

\* token event: accumulate, and update_task_content when the accumulator
\* has crossed a boundary
RunnerToken(r, text) ==
    /\ Emit(r)
    /\ LET t == runners[r].task
           acc == Append(runners[r].acc, text)
       IN /\ SetRunner(r, [runners[r] EXCEPT !.acc = acc])
          /\ tasks' = IF Chars(acc) % SnapshotBoundary < text
                      THEN UpdateTask(t, [GetTask(t) EXCEPT
                               !.last_streamed_content = acc])
                      ELSE tasks
          /\ tokens' = [tokens EXCEPT ![t] = Append(@, text)]
    /\ UNCHANGED <<sessions, output_files, disk, running_tasks, task_streams,
                   queues, cancels, observers, now, requests,
                   emitted, posts, task_cap, written, research_job>>

\* the estimate without its cap
ProgressUncapped(tool_count) == tool_count * ProgressStep

\* progress = min(0.9, tool_count * 0.1)
Progress(tool_count) == Min(ProgressCap, tool_count * ProgressStep)

UsingMessage(tool_name) == "Using " \o tool_name \o "..."

\* tool_use event: count it; the scope of update_task_progress
RunnerToolUse(r, tool_name) ==
    /\ Emit(r)
    /\ LET t == runners[r].task
           tc == runners[r].tool_count + 1
       IN /\ SetRunner(r, [runners[r] EXCEPT
                 !.pc = "progress_notify",
                 !.tool_count = tc,
                 !.arg = UsingMessage(tool_name)])
          /\ tasks' = UpdateTask(t, [GetTask(t) EXCEPT
                 !.progress = Progress(tc),
                 !.progress_message = UsingMessage(tool_name)])
    /\ Emitted(r, ProgressEvent(Progress(runners[r].tool_count + 1),
                                 UsingMessage(tool_name)))
    /\ UNCHANGED <<sessions, output_files, disk, running_tasks, task_streams,
                   queues, cancels, observers, now, requests,
                   posts, task_cap, tokens, written, research_job>>

\* update_task_progress after its scope: push to the live stream
RunnerProgressNotify(r) ==
    /\ RunnerAt(r, "progress_notify")
    /\ queues' = Put(runners[r].task,
                     ProgressEvent(Progress(runners[r].tool_count), runners[r].arg))
    /\ SetRunner(r, [runners[r] EXCEPT !.pc = "loop", !.arg = None])
    /\ UNCHANGED <<store, disk, running_tasks, task_streams, cancels,
                   observers, now, requests, events_left,
                   emitted, posts, task_cap, tokens, written, research_job>>

\* system event: no branch of the loop handles it
RunnerSystem(r) ==
    /\ RunnerAt(r, "loop")
    /\ UNCHANGED vars

\* ------------------------------------------- runner._scan_output_files
\* A file of output_dir is [parts, stem, suffix]; its relative path is the
\* record itself.
Lower(suffix) ==
    CASE suffix = ".MD" -> ".md"
      [] suffix = ".Json" -> ".json"
      [] OTHER -> suffix

\* _get_file_type
FileType(path) ==
    LET suffix == Lower(path.suffix) IN
    CASE suffix = ".md" -> "markdown"
      [] suffix = ".json" -> "json"
      [] suffix = ".csv" -> "csv"
      [] suffix = ".txt" -> "text"
      [] suffix = ".html" -> "html"
      [] suffix = ".pdf" -> "pdf"
      [] OTHER -> "other"

\* select(OutputFile.filepath).where(OutputFile.session_id == session_id)
ExistingPaths(s) ==
    {output_files[i].filepath :
        i \in {j \in 1..Len(output_files) : output_files[j].session_id = s}}

\* the row with filepath.name stored in place of the relative path
NewOutputFileByName(t, s, path) ==
    [session_id |-> s, task_id |-> t, filename |-> path.stem \o path.suffix,
     filepath |-> [path EXCEPT !.parts = <<>>], file_type |-> FileType(path)]

NewOutputFile(t, s, path) ==
    [session_id |-> s, task_id |-> t, filename |-> path.stem \o path.suffix,
     filepath |-> path, file_type |-> FileType(path)]

\* the rows db.add()ed by one scan
NewFiles(t, s) ==
    {NewOutputFile(t, s, path) : path \in disk \ ExistingPaths(s)}

RECURSIVE SeqOf(_)
SeqOf(S) ==
    IF S = {} THEN <<>>
    ELSE LET x == CHOOSE y \in S : TRUE IN <<x>> \o SeqOf(S \ {x})

\* done event handled without the call of _scan_output_files
RunnerDoneUnscanned(r) ==
    /\ Emit(r)
    /\ SetRunner(r, At(runners[r], "complete"))
    /\ Emitted(r, DoneEvent("completed"))
    /\ UNCHANGED <<store, disk, running_tasks, task_streams, queues,
                   cancels, observers, now, requests,
                   posts, task_cap, tokens, written, research_job>>

\* done event: _scan_output_files reads the tracked paths and walks the
\* directory; the rows it adds are inserted when its scope is left
RunnerDone(r) ==
    /\ Emit(r)
    /\ SetRunner(r, [runners[r] EXCEPT
           !.pc = "scan_commit",
           !.adds = NewFiles(runners[r].task, runners[r].sess)])
    /\ Emitted(r, DoneEvent("completed"))
    /\ UNCHANGED <<store, disk, running_tasks, task_streams, queues,
                   cancels, observers, now, requests,
                   posts, task_cap, tokens, written, research_job>>

\* exit of the scope of _scan_output_files
RunnerScanCommit(r) ==
    /\ RunnerAt(r, "scan_commit")
    /\ output_files' = output_files \o SeqOf(runners[r].adds)
    /\ SetRunner(r, [runners[r] EXCEPT !.pc = "complete", !.adds = {}])
    /\ UNCHANGED <<sessions, tasks, disk, running_tasks, task_streams,
                   queues, cancels, observers, now, requests, events_left,
                   emitted, posts, task_cap, tokens, written, research_job>>

\* ------------------------------------------- TaskManager.complete_task
\* the scope
RunnerComplete(r) ==
    /\ RunnerAt(r, "complete")
    /\ LET t == runners[r].task IN
       /\ tasks' = UpdateTask(t, [GetTask(t) EXCEPT
              !.status = "completed",
              !.progress = ProgressComplete,
              !.progress_message = "Research complete",
              !.completed_at = now,
              !.last_streamed_content = runners[r].acc,
              !.usage_stats = UsageOfDone,
              !.total_cost_usd = CostOfDone])
       /\ now' = Tick(t)
    /\ SetRunner(r, At(runners[r], "complete_notify"))
    /\ UNCHANGED <<sessions, output_files, disk, running_tasks, task_streams,
                   queues, cancels, observers, requests, events_left,
                   emitted, posts, task_cap, tokens, written, research_job>>

\* after the scope: notify the stream, drop the registry entry; the loop
\* then awaits the next event
RunnerCompleteNotify(r) ==
    /\ RunnerAt(r, "complete_notify")
    /\ queues' = Put(runners[r].task, DoneEvent("completed"))
    /\ running_tasks' = [running_tasks EXCEPT ![runners[r].task] = 0]
    /\ SetRunner(r, At(runners[r], "loop"))
    /\ UNCHANGED <<store, disk, task_streams, cancels, observers, now,
                   requests, events_left,
                   emitted, posts, task_cap, tokens, written, research_job>>

\* ----------------------------------------------- TaskManager.fail_task
\* the scope, with FAILED stored but not the message
FailTaskNoMessage(r, error_message) ==
    LET t == runners[r].task IN
    /\ tasks' = UpdateTask(t, [GetTask(t) EXCEPT
           !.status = "failed",
           !.completed_at = now])
    /\ now' = Tick(t)
    /\ SetRunner(r, [runners[r] EXCEPT
           !.pc = "fail_notify", !.arg = error_message])

\* the scope
FailTask(r, error_message) ==
    LET t == runners[r].task IN
    /\ tasks' = UpdateTask(t, [GetTask(t) EXCEPT
           !.status = "failed",
           !.error_message = error_message,
           !.completed_at = now])
    /\ now' = Tick(t)
    /\ SetRunner(r, [runners[r] EXCEPT
           !.pc = "fail_notify", !.arg = error_message])

\* error event (the last event of a stream: core/agent.py yields it from
\* its except clause)
RunnerError(r, message) ==
    /\ Emit(r)
    /\ FailTask(r, message)
    /\ Emitted(r, ErrorEvent(message))
    /\ UNCHANGED <<sessions, output_files, disk, running_tasks, task_streams,
                   queues, cancels, observers, requests,
                   posts, task_cap, tokens, written, research_job>>

\* an exception e caught by `except Exception as e`, with str(e) = m
FaultRaised(m) == [type |-> "fault", message |-> m]

\* an except clause that logs the fault and lets the coroutine return
RunnerFaultSwallowed(r) ==
    /\ RunnerAt(r, "loop")
    /\ SetRunner(r, At(runners[r], "done"))
    /\ Emitted(r, FaultRaised(FaultMessage))
    /\ UNCHANGED <<store, disk, running_tasks, task_streams, queues,
                   cancels, observers, now, requests, events_left,
                   posts, task_cap, tokens, written, research_job>>

\* `except Exception as e`: a fault escapes the loop while the coroutine
\* awaits the worker or handles a token or tool_use event
RunnerFault(r) ==
    /\ RunnerAt(r, "loop")
    /\ FailTask(r, FaultMessage)
    /\ Emitted(r, FaultRaised(FaultMessage))
    /\ UNCHANGED <<sessions, output_files, disk, running_tasks, task_streams,
                   queues, cancels, observers, requests, events_left,
                   posts, task_cap, tokens, written, research_job>>

\* a scope that commits what was added before the fault
RunnerScanFaultCommitted(r) ==
    /\ RunnerAt(r, "scan_commit")
    /\ FailTask(r, FaultMessage)
    /\ Emitted(r, FaultRaised(FaultMessage))
    /\ output_files' = output_files \o SeqOf(runners[r].adds)
    /\ UNCHANGED <<sessions, disk, running_tasks, task_streams,
                   queues, cancels, observers, requests, events_left,
                   posts, task_cap, tokens, written, research_job>>

\* the fault is raised inside _scan_output_files: its scope is rolled back
RunnerScanFault(r) ==
    /\ RunnerAt(r, "scan_commit")
    /\ FailTask(r, FaultMessage)
    /\ Emitted(r, FaultRaised(FaultMessage))
    /\ UNCHANGED <<sessions, output_files, disk, running_tasks, task_streams,
                   queues, cancels, observers, requests, events_left,
                   posts, task_cap, tokens, written, research_job>>

\* the fault is raised by the scope of complete_task, which is rolled back
RunnerCompleteFault(r) ==
    /\ RunnerAt(r, "complete")
    /\ FailTask(r, FaultMessage)
    /\ Emitted(r, FaultRaised(FaultMessage))
    /\ UNCHANGED <<sessions, output_files, disk, running_tasks, task_streams,
                   queues, cancels, observers, requests, events_left,
                   posts, task_cap, tokens, written, research_job>>

\* exit of the scope of _scan_output_files when the Store enforces the
\* foreign key of OutputFile.session_id (PostgreSQL; SQLite does not unless
\* told to) and the Session is gone: the commit raises, nothing is
\* inserted, and `except Exception` calls fail_task
RunnerScanRejected(r) ==
    /\ RunnerAt(r, "scan_commit")
    /\ runners[r].adds # {}
    /\ ~HasSession(runners[r].sess)
    /\ FailTask(r, FaultMessage)
    /\ UNCHANGED <<sessions, output_files, disk, running_tasks, task_streams,
                   queues, cancels, observers, requests, events_left,
                   emitted, posts, task_cap, tokens, written, research_job>>

\* after the scope: notify, drop the registry entry; the coroutine returns
RunnerFailNotify(r) ==
    /\ RunnerAt(r, "fail_notify")
    /\ queues' = Put(runners[r].task, ErrorEvent(runners[r].arg))
    /\ running_tasks' = [running_tasks EXCEPT ![runners[r].task] = 0]
    /\ SetRunner(r, [runners[r] EXCEPT !.pc = "done", !.arg = None])
    /\ UNCHANGED <<store, disk, task_streams, cancels, observers, now,
                   requests, events_left,
                   emitted, posts, task_cap, tokens, written, research_job>>

\* the stream ends: the loop is left and the coroutine returns
RunnerStreamEnd(r) ==
    /\ RunnerAt(r, "loop")
    /\ SetRunner(r, At(runners[r], "done"))
    /\ UNCHANGED <<store, disk, running_tasks, task_streams, queues,
                   cancels, observers, now, requests, events_left,
                   emitted, posts, task_cap, tokens, written, research_job>>

\* --------------------------- TaskManager.cancel_task, routes.cancel_task
\* a call of cancel_task; runner is the coroutine it called cancel() on
\* (0: none, the registry had no entry)
NewCancel(t, pc, result, code) ==
    [task |-> t, pc |-> pc, result |-> result, status_code |-> code,
     runner |-> running_tasks[t]]

\* cancel_task without the registry check: the scope is entered
CancelUnchecked(t) ==
    /\ Request(t)
    /\ running_tasks[t] = 0
    /\ cancels' = Append(cancels, NewCancel(t, "scope", FALSE, 0))
    /\ UNCHANGED <<store, disk, running_tasks, task_streams, queues,
                   runners, observers, now,
                   emitted, posts, task_cap, tokens, written, research_job>>

\* `if task_id in _running_tasks` fails: False, answered with 400
CancelRejected(t) ==
    /\ Request(t)
    /\ running_tasks[t] = 0
    /\ cancels' = Append(cancels, NewCancel(t, "done", FALSE, 400))
    /\ UNCHANGED <<store, disk, running_tasks, task_streams, queues,
                   runners, observers, now,
                   emitted, posts, task_cap, tokens, written, research_job>>

\* the check passes: the registered coroutine is cancelled and the scope
\* is entered
CancelRequest(t) ==
    /\ Request(t)
    /\ running_tasks[t] # 0
    /\ runners' = CancelRunner(running_tasks[t])
    /\ cancels' = Append(cancels, NewCancel(t, "scope", FALSE, 0))
    /\ UNCHANGED <<store, disk, running_tasks, task_streams, queues,
                   observers, now, emitted, posts, task_cap, tokens, written, research_job>>

\* the scope, with the progress fields reset as well
CancelScopeReset(c) ==
    /\ CancelAt(c, "scope")
    /\ LET t == cancels[c].task IN
       /\ tasks' = UpdateTask(t, [GetTask(t) EXCEPT
              !.status = "cancelled", !.completed_at = now,
              !.progress = 0, !.progress_message = None])
       /\ now' = Tick(t)
    /\ cancels' = [cancels EXCEPT ![c].pc = "notify"]
    /\ UNCHANGED <<sessions, output_files, disk, running_tasks, task_streams,
                   queues, runners, observers, requests, events_left,
                   emitted, posts, task_cap, tokens, written, research_job>>

\* the scope
CancelScope(c) ==
    /\ CancelAt(c, "scope")
    /\ LET t == cancels[c].task IN
       /\ tasks' = UpdateTask(t, [GetTask(t) EXCEPT
              !.status = "cancelled", !.completed_at = now])
       /\ now' = Tick(t)
    /\ cancels' = [cancels EXCEPT ![c].pc = "notify"]
    /\ UNCHANGED <<sessions, output_files, disk, running_tasks, task_streams,
                   queues, runners, observers, requests, events_left,
                   emitted, posts, task_cap, tokens, written, research_job>>

\* after the scope: notify, drop the registry entry, True (answered 200)
CancelNotify(c) ==
    /\ CancelAt(c, "notify")
    /\ queues' = Put(cancels[c].task, DoneEvent("cancelled"))
    /\ running_tasks' = [running_tasks EXCEPT ![cancels[c].task] = 0]
    /\ cancels' = [cancels EXCEPT ![c] = [@ EXCEPT
           !.pc = "done", !.result = TRUE, !.status_code = 200]]
    /\ UNCHANGED <<store, disk, task_streams, runners, observers, now,
                   requests, events_left,
                   emitted, posts, task_cap, tokens, written, research_job>>

\* ------------------------------------------- routes.stream_task_updates
\* The request reads the task (get_task); what follows acts on that copy.
StreamRequest(t) ==
    /\ Request(t)
    /\ observers' = Append(observers,
           [task |-> t, pc |-> "dispatch", snap |-> GetTask(t), q |-> 0,
            received |-> <<>>])
    /\ UNCHANGED <<store, disk, running_tasks, task_streams, queues,
                   runners, cancels, now,
                   emitted, posts, task_cap, tokens, written, research_job>>

Close(o, events) ==
    observers' = [observers EXCEPT ![o] = [@ EXCEPT
        !.pc = "closed", !.snap = NoRow, !.received = @ \o events]]

\* the absent task is subscribed to before error_gen is returned
StreamNotFoundSubscribed(o) ==
    /\ ObserverAt(o, "dispatch")
    /\ ~Exists(observers[o].snap)
    /\ Close(o, <<ErrorEvent("Task not found")>>)
    /\ queues' = Append(queues, <<>>)
    /\ task_streams' = [task_streams EXCEPT
           ![observers[o].task] = Len(queues) + 1]
    /\ UNCHANGED <<store, disk, running_tasks, runners, cancels, now,
                   requests, events_left, emitted, posts, task_cap, tokens, written, research_job>>

\* error_gen
StreamNotFound(o) ==
    /\ ObserverAt(o, "dispatch")
    /\ ~Exists(observers[o].snap)
    /\ Close(o, <<ErrorEvent("Task not found")>>)
    /\ UNCHANGED <<store, disk, running_tasks, task_streams, queues,
                   runners, cancels, now, requests, events_left,
                   emitted, posts, task_cap, tokens, written, research_job>>

ContentEvent(text) == [type |-> "content", text |-> text]
FinalEvent(row) ==
    [type |-> "done", status |-> row.status, error |-> row.error_message]

\* done_gen without `if task.last_streamed_content`
StreamReplayAlways(o) ==
    /\ ObserverAt(o, "dispatch")
    /\ observers[o].snap.status \in Terminal
    /\ LET row == observers[o].snap IN
       Close(o, <<ContentEvent(row.last_streamed_content), FinalEvent(row)>>)
    /\ UNCHANGED <<store, disk, running_tasks, task_streams, queues,
                   runners, cancels, now, requests, events_left,
                   emitted, posts, task_cap, tokens, written, research_job>>

\* done_gen: the task read was terminal
StreamReplay(o) ==
    /\ ObserverAt(o, "dispatch")
    /\ observers[o].snap.status \in Terminal
    /\ LET row == observers[o].snap IN
       Close(o, (IF row.last_streamed_content # <<>>
                 THEN <<ContentEvent(row.last_streamed_content)>>
                 ELSE <<>>) \o <<FinalEvent(row)>>)
    /\ UNCHANGED <<store, disk, running_tasks, task_streams, queues,
                   runners, cancels, now, requests, events_left,
                   emitted, posts, task_cap, tokens, written, research_job>>

Listen(o, q) ==
    observers' = [observers EXCEPT ![o] = [@ EXCEPT
        !.pc = "listening", !.snap = NoRow, !.q = q]]

\* the task read was PENDING: start_task, then subscribe_to_task finds the
\* queue start_task has just made
StreamStart(o) ==
    /\ ObserverAt(o, "dispatch")
    /\ observers[o].snap.status = "pending"
    /\ StartTask(observers[o].task)
    /\ Listen(o, Len(queues) + 1)
    /\ UNCHANGED <<store, disk, cancels, now, requests, events_left,
                   emitted, posts, task_cap, tokens, written, research_job>>

\* the task read was RUNNING: subscribe_to_task, which makes the queue
\* when the registry has none
StreamSubscribe(o) ==
    /\ ObserverAt(o, "dispatch")
    /\ observers[o].snap.status = "running"
    /\ LET t == observers[o].task IN
       IF task_streams[t] # 0
       THEN /\ Listen(o, task_streams[t])
            /\ UNCHANGED <<task_streams, queues>>
       ELSE /\ Listen(o, Len(queues) + 1)
            /\ queues' = Append(queues, <<>>)
            /\ task_streams' = [task_streams EXCEPT ![t] = Len(queues) + 1]
    /\ UNCHANGED <<store, disk, running_tasks, runners, cancels, now, requests, events_left,
                   emitted, posts, task_cap, tokens, written, research_job>>

\* cleanup_stream that leaves the registry as it is
CleanupStreamKept(t) == task_streams' = task_streams

\* TaskManager.cleanup_stream
CleanupStream(t) == task_streams' = [task_streams EXCEPT ![t] = 0]

\* stream_gen: queue.get() returns an event, which is relayed; after a
\* done or error event the generator ends through its finally clause
StreamRelay(o) ==
    /\ ObserverAt(o, "listening")
    /\ queues[observers[o].q] # <<>>
    /\ LET e == Head(queues[observers[o].q]) IN
       /\ queues' = [queues EXCEPT ![observers[o].q] = Tail(@)]
       /\ IF IsTerminalEvent(e)
          THEN /\ Close(o, <<e>>)
               /\ CleanupStream(observers[o].task)
          ELSE /\ observers' = [observers EXCEPT ![o].received = Append(@, e)]
               /\ UNCHANGED task_streams
    /\ UNCHANGED <<store, disk, running_tasks, runners, cancels, now, requests, events_left,
                   emitted, posts, task_cap, tokens, written, research_job>>

\* the observer goes away: the generator is closed, finally runs
StreamDisconnect(o) ==
    /\ ObserverAt(o, "listening")
    /\ Close(o, <<>>)
    /\ CleanupStream(observers[o].task)
    /\ UNCHANGED <<store, disk, running_tasks, queues, runners, cancels, now, requests, events_left,
                   emitted, posts, task_cap, tokens, written, research_job>>

\* ------------------------------------------------------------------- Next
Next ==
    \/ \E s \in SessionIds : PostTaskBackground(s)
    \/ \E s \in SessionIds : PostTaskLive(s)
    \/ \E t \in TaskIds : CancelRejected(t)
    \/ \E t \in TaskIds : CancelRequest(t)
    \/ \E t \in TaskIds : StreamRequest(t)
    \/ \E r \in 1..MaxRunners : RunnerStart(r)
    \/ \E r \in 1..MaxRunners, text \in TokenLengths : RunnerToken(r, text)
    \/ \E r \in 1..MaxRunners, tool_name \in ToolNames :
           RunnerToolUse(r, tool_name)
    \/ \E r \in 1..MaxRunners : RunnerProgressNotify(r)
    \/ \E r \in 1..MaxRunners : RunnerSystem(r)
    \/ \E r \in 1..MaxRunners : RunnerDone(r)
    \/ \E r \in 1..MaxRunners : RunnerScanCommit(r)
    \/ \E r \in 1..MaxRunners : RunnerComplete(r)
    \/ \E r \in 1..MaxRunners : RunnerCompleteNotify(r)
    \/ \E r \in 1..MaxRunners, message \in ErrorMessages :
           RunnerError(r, message)
    \/ \E r \in 1..MaxRunners : RunnerFault(r)
    \/ \E r \in 1..MaxRunners : RunnerFailNotify(r)
    \/ \E r \in 1..MaxRunners : RunnerStreamEnd(r)
    \/ \E c \in 1..MaxRequests : CancelScope(c)
    \/ \E c \in 1..MaxRequests : CancelNotify(c)
    \/ \E o \in 1..MaxRequests : StreamNotFound(o)
    \/ \E o \in 1..MaxRequests : StreamReplay(o)
    \/ \E o \in 1..MaxRequests : StreamStart(o)
    \/ \E o \in 1..MaxRequests : StreamSubscribe(o)
    \/ \E o \in 1..MaxRequests : StreamRelay(o)
    \/ \E o \in 1..MaxRequests : StreamDisconnect(o)

Spec == Init /\ [][Next]_vars

\* One POST /tasks per task and nothing else: each task is driven by its
\* coroutine alone, and its worker may emit a long stream.
InitSolo == InitWith(MaxSoloEvents)

NextSolo ==
    \/ \E s \in SessionIds : PostTaskBackground(s)
    \/ \E r \in 1..MaxRunners : RunnerStart(r)
    \/ \E r \in 1..MaxRunners, text \in TokenLengths : RunnerToken(r, text)
    \/ \E r \in 1..MaxRunners, tool_name \in ToolNames :
           RunnerToolUse(r, tool_name)
    \/ \E r \in 1..MaxRunners : RunnerProgressNotify(r)
    \/ \E r \in 1..MaxRunners : RunnerSystem(r)
    \/ \E r \in 1..MaxRunners : RunnerDone(r)
    \/ \E r \in 1..MaxRunners : RunnerScanCommit(r)
    \/ \E r \in 1..MaxRunners : RunnerComplete(r)
    \/ \E r \in 1..MaxRunners : RunnerCompleteNotify(r)
    \/ \E r \in 1..MaxRunners, message \in ErrorMessages :
           RunnerError(r, message)
    \/ \E r \in 1..MaxRunners : RunnerFault(r)
    \/ \E r \in 1..MaxRunners : RunnerFailNotify(r)
    \/ \E r \in 1..MaxRunners : RunnerStreamEnd(r)

SoloSpec == InitSolo /\ [][NextSolo]_vars

\* Tasks posted into a Store that may already hold the Session, with an
\* output directory that may already hold files and is not written to any
\* more; the workers emit done events only.
OutputDir ==
    {[parts |-> <<>>, stem |-> "report", suffix |-> ".md"],
     [parts |-> <<"data">>, stem |-> "raw", suffix |-> ".Json"]}

\* a Session row made by an earlier request
EarlierSessions == {{}, {[id |-> s, created_at |-> 0] : s \in SessionIds}}

InitPool ==
    /\ \E rows \in EarlierSessions, files \in SUBSET OutputDir :
           InitFrom(MaxPoolEvents, MaxPoolTasks, rows, files)
    /\ NoJob

NextPool ==
    \/ \E s \in SessionIds \cup {None}, prompt \in Prompts \cup {None},
          mode \in Modes : PostTaskInvalid(s, prompt, mode)
    \/ \E s \in SessionIds : PostTaskBackground(s)
    \/ \E s \in SessionIds : PostTaskLive(s)
    \/ \E r \in 1..MaxRunners : RunnerStart(r)
    \/ \E r \in 1..MaxRunners : RunnerDone(r)
    \/ \E r \in 1..MaxRunners : RunnerScanCommit(r)
    \/ \E r \in 1..MaxRunners : RunnerComplete(r)
    \/ \E r \in 1..MaxRunners : RunnerCompleteNotify(r)
    \/ \E r \in 1..MaxRunners : RunnerStreamEnd(r)

PoolSpec == InitPool /\ [][NextPool]_vars

\* One POST /tasks per task, with faults raised in the loop, in the
\* Reconciler and in the Store update of complete_task.
NextFault ==
    \/ \E s \in SessionIds : PostTaskBackground(s)
    \/ \E r \in 1..MaxRunners : RunnerStart(r)
    \/ \E r \in 1..MaxRunners, tool_name \in ToolNames :
           RunnerToolUse(r, tool_name)
    \/ \E r \in 1..MaxRunners : RunnerProgressNotify(r)
    \/ \E r \in 1..MaxRunners : RunnerDone(r)
    \/ \E r \in 1..MaxRunners : RunnerScanCommit(r)
    \/ \E r \in 1..MaxRunners : RunnerScanFault(r)
    \/ \E r \in 1..MaxRunners : RunnerComplete(r)
    \/ \E r \in 1..MaxRunners : RunnerCompleteFault(r)
    \/ \E r \in 1..MaxRunners : RunnerCompleteNotify(r)
    \/ \E r \in 1..MaxRunners : RunnerFault(r)
    \/ \E r \in 1..MaxRunners : RunnerFailNotify(r)
    \/ \E r \in 1..MaxRunners : RunnerStreamEnd(r)

FaultSpec == InitPool /\ [][NextFault]_vars

\* Tasks posted in background mode, each driven by its coroutine, that
\* callers may cancel.
NextCancel ==
    \/ \E s \in SessionIds : PostTaskBackground(s)
    \/ \E t \in TaskIds : CancelRejected(t)
    \/ \E t \in TaskIds : CancelRequest(t)
    \/ \E c \in 1..MaxRequests : CancelScope(c)
    \/ \E c \in 1..MaxRequests : CancelNotify(c)
    \/ \E r \in 1..MaxRunners : RunnerStart(r)
    \/ \E r \in 1..MaxRunners, tool_name \in ToolNames :
           RunnerToolUse(r, tool_name)
    \/ \E r \in 1..MaxRunners : RunnerProgressNotify(r)
    \/ \E r \in 1..MaxRunners, message \in ErrorMessages :
           RunnerError(r, message)
    \/ \E r \in 1..MaxRunners : RunnerFailNotify(r)
    \/ \E r \in 1..MaxRunners : RunnerStreamEnd(r)

CancelSpec == InitPool /\ [][NextCancel]_vars

\* The TaskManager called by a caller other than the routes, which may
\* subscribe to a task before it starts it.
SubscribeToTask(t) ==
    /\ Request(t)
    /\ LET q == IF task_streams[t] # 0 THEN task_streams[t]
                ELSE Len(queues) + 1
       IN /\ observers' = Append(observers,
                 [task |-> t, pc |-> "listening", snap |-> NoRow, q |-> q,
                  received |-> <<>>])
          /\ IF task_streams[t] # 0
             THEN UNCHANGED <<task_streams, queues>>
             ELSE /\ queues' = Append(queues, <<>>)
                  /\ task_streams' = [task_streams EXCEPT ![t] = q]
    /\ UNCHANGED <<store, disk, running_tasks, runners, cancels, now,
                   emitted, posts, task_cap, tokens, written, research_job>>

StartTaskCall(t) ==
    /\ Request(t)
    /\ t # 0
    /\ StartTask(t)
    /\ UNCHANGED <<store, disk, cancels, observers, now, emitted, posts,
                   task_cap, tokens, written, research_job>>

NextManager ==
    \/ \E s \in SessionIds : PostTaskLive(s)
    \/ \E t \in TaskIds : SubscribeToTask(t)
    \/ \E t \in TaskIds : StartTaskCall(t)
    \/ \E r \in 1..MaxRunners : RunnerStart(r)
    \/ \E r \in 1..MaxRunners, tool_name \in ToolNames :
           RunnerToolUse(r, tool_name)
    \/ \E r \in 1..MaxRunners : RunnerProgressNotify(r)
    \/ \E r \in 1..MaxRunners, message \in ErrorMessages :
           RunnerError(r, message)
    \/ \E r \in 1..MaxRunners : RunnerFailNotify(r)
    \/ \E r \in 1..MaxRunners : RunnerStreamEnd(r)
    \/ \E o \in 1..MaxRequests : StreamRelay(o)

ManagerSpec == Init /\ [][NextManager]_vars

\* The worker of coroutine r (allowed_tools Write, Edit, Bash with
\* cwd = output_dir, the directory every worker shares) writes a file while
\* its stream is open.
WorkerWrite(r, path) ==
    /\ r \in DOMAIN runners
    /\ runners[r].pc \in {"loop", "progress_notify"}
    /\ [path |-> path, task |-> runners[r].task] \notin written
    /\ disk' = disk \cup {path}
    /\ written' = written \cup {[path |-> path, task |-> runners[r].task]}
    /\ UNCHANGED <<store, running_tasks, task_streams, queues, runners,
                   cancels, observers, now, requests, events_left, emitted,
                   posts, task_cap, tokens, research_job>>

\* Tasks posted in background mode whose workers write files into the
\* shared output directory.
NextWrite ==
    \/ \E s \in SessionIds : PostTaskBackground(s)
    \/ \E r \in 1..MaxRunners : RunnerStart(r)
    \/ \E r \in 1..MaxRunners, path \in OutputDir : WorkerWrite(r, path)
    \/ \E r \in 1..MaxRunners : RunnerDone(r)
    \/ \E r \in 1..MaxRunners : RunnerScanCommit(r)
    \/ \E r \in 1..MaxRunners : RunnerComplete(r)
    \/ \E r \in 1..MaxRunners : RunnerCompleteNotify(r)
    \/ \E r \in 1..MaxRunners : RunnerStreamEnd(r)

WriteSpec == InitPool /\ [][NextWrite]_vars

\* Tasks posted in background mode whose Session a caller may delete while
\* they run.
NextDelete ==
    \/ \E s \in SessionIds : PostTaskBackground(s)
    \/ \E s \in SessionIds : SessionsDelete(s)
    \/ \E r \in 1..MaxRunners : RunnerStart(r)
    \/ \E r \in 1..MaxRunners : RunnerDone(r)
    \/ \E r \in 1..MaxRunners : RunnerScanCommit(r)
    \/ \E r \in 1..MaxRunners : RunnerScanRejected(r)
    \/ \E r \in 1..MaxRunners : RunnerComplete(r)
    \/ \E r \in 1..MaxRunners : RunnerCompleteNotify(r)
    \/ \E r \in 1..MaxRunners : RunnerFailNotify(r)
    \/ \E r \in 1..MaxRunners : RunnerStreamEnd(r)

DeleteSpec == InitPool /\ [][NextDelete]_vars

\* One task posted in background mode whose worker streams tokens of two
\* lengths, so that the accumulator crosses the snapshot boundary at
\* different tokens.
ContentLengths == {400, 700}

InitContent == InitWith(MaxContentEvents)

NextContent ==
    \/ \E s \in SessionIds : PostTaskBackground(s)
    \/ \E r \in 1..MaxRunners : RunnerStart(r)
    \/ \E r \in 1..MaxRunners, text \in ContentLengths : RunnerToken(r, text)
    \/ \E r \in 1..MaxRunners : RunnerDone(r)
    \/ \E r \in 1..MaxRunners : RunnerScanCommit(r)
    \/ \E r \in 1..MaxRunners : RunnerComplete(r)
    \/ \E r \in 1..MaxRunners : RunnerCompleteNotify(r)
    \/ \E r \in 1..MaxRunners : RunnerStreamEnd(r)

ContentSpec == InitContent /\ [][NextContent]_vars

\* ------------------------------------ research_job.ResearchJobRunner.run
\* The Lakeflow job is a process of its own: it shares nothing with the
\* orchestrator above.  Every statement it sends to Lakebase is committed by
\* itself (execute_update) or reads what is committed (execute), so each is
\* one step, and the application that owns the row may write it in between.
orchestrator ==
    <<sessions, tasks, output_files, disk, running_tasks, task_streams,
      queues, runners, cancels, observers, now, requests, events_left,
      task_cap, posts, emitted, tokens, written>>

JobRunId == "run-1"
OutputPath == "volume/task.md"
UploadError == "upload failed"

\* update_status: the optional columns are set when given; completed_at is
\* stamped for the three final statuses
UpdateStatus(row, status, job_run_id, output_path, error_message) ==
    [row EXCEPT
        !.status = status,
        !.job_run_id = IF job_run_id # None THEN job_run_id ELSE @,
        !.output_path = IF output_path # None THEN output_path ELSE @,
        !.error_message = IF error_message # None THEN error_message ELSE @,
        !.completed_at = IF status \in Terminal THEN TRUE ELSE @]

\* add_progress: the entry is appended to the progress column
AddProgress(row, step) == [row EXCEPT !.progress = Append(@, step)]

\* check_cancellation
CheckCancellation == lakebase.status = "cancelled"

\* where run goes on once `questions` have been dealt with from index i
Questions(i) == IF i < job.questions THEN "check_question" ELSE "p_synthesizing"

\* the add_progress calls of run: the step each logs and where run goes next
StepOf(pc) ==
    CASE pc = "p_started" -> "started"
      [] pc = "p_cancelled" -> "cancelled"
      [] pc = "p_analyzing" -> "analyzing"
      [] pc = "p_researching" -> "researching"
      [] pc = "p_question" -> "question"
      [] pc = "p_synthesizing" -> "synthesizing"
      [] pc = "p_writing" -> "writing"
      [] pc = "p_completed" -> "completed"
      [] pc = "p_failed" -> "failed"

AfterStep(pc) ==
    CASE pc = "p_started" -> "check_start"
      [] pc = "p_cancelled" -> "returned"
      [] pc = "p_analyzing" -> "check_research"
      [] pc = "p_researching" -> Questions(0)
      [] pc = "p_question" -> Questions(job.i + 1)
      [] pc = "p_synthesizing" -> "p_writing"
      [] pc = "p_writing" -> "write_output"
      [] pc = "p_completed" -> "returned"
      [] pc = "p_failed" -> "raised"

ProgressPoints ==
    {"p_started", "p_cancelled", "p_analyzing", "p_researching", "p_question",
     "p_synthesizing", "p_writing", "p_completed", "p_failed"}

\* the check_cancellation calls of run and where run goes on when the task
\* is not cancelled
AfterCheck(pc) ==
    CASE pc = "check_start" -> "p_analyzing"
      [] pc = "check_research" -> "p_researching"
      [] pc = "check_question" -> "p_question"

CheckPoints == {"check_start", "check_research", "check_question"}

\* self.update_status("running", job_run_id=job_run_id), the first
\* statement of run
RunMarkRunning ==
    /\ job.pc = "start"
    /\ lakebase' = UpdateStatus(lakebase, "running", JobRunId, None, None)
    /\ job' = [job EXCEPT !.pc = "p_started"]
    /\ UNCHANGED <<orchestrator, volume>>

RunAddProgress ==
    /\ job.pc \in ProgressPoints
    /\ lakebase' = AddProgress(lakebase, StepOf(job.pc))
    /\ job' = [job EXCEPT
           !.pc = AfterStep(job.pc),
           !.i = IF job.pc = "p_question" THEN @ + 1 ELSE @]
    /\ UNCHANGED <<orchestrator, volume>>

\* `if self.check_cancellation(): self.add_progress("cancelled", ..); return`
RunCheckCancellation ==
    /\ job.pc \in CheckPoints
    /\ job' = [job EXCEPT
           !.pc = IF CheckCancellation THEN "p_cancelled"
                  ELSE AfterCheck(job.pc)]
    /\ UNCHANGED <<orchestrator, lakebase, volume>>

\* write_output: the report is uploaded to the volume
RunWriteOutput ==
    /\ job.pc = "write_output"
    /\ volume' = volume \cup {OutputPath}
    /\ job' = [job EXCEPT !.pc = "mark_completed"]
    /\ UNCHANGED <<orchestrator, lakebase>>

\* the upload raises: `except Exception as e`
RunWriteOutputFault ==
    /\ job.pc = "write_output"
    /\ job' = [job EXCEPT !.pc = "mark_failed"]
    /\ UNCHANGED <<orchestrator, lakebase, volume>>

\* self.update_status("completed", output_path=output_path)
RunMarkCompleted ==
    /\ job.pc = "mark_completed"
    /\ lakebase' = UpdateStatus(lakebase, "completed", None, OutputPath, None)
    /\ job' = [job EXCEPT !.pc = "p_completed"]
    /\ UNCHANGED <<orchestrator, volume>>

\* self.update_status("failed", error_message=error_msg)
RunMarkFailed ==
    /\ job.pc = "mark_failed"
    /\ lakebase' = UpdateStatus(lakebase, "failed", None, None, UploadError)
    /\ job' = [job EXCEPT !.pc = "p_failed"]
    /\ UNCHANGED <<orchestrator, volume>>

\* the application sets the stored status to cancelled while run executes
ExternalCancel ==
    /\ job.pc \notin {"idle", "start", "returned", "raised"}
    /\ lakebase.status # "cancelled"
    /\ lakebase' = [lakebase EXCEPT !.status = "cancelled"]
    /\ UNCHANGED <<orchestrator, job, volume>>

\* the job is launched for a task that is pending, or that was cancelled
\* before the job came to run, with a scope of up to MaxQuestions questions
InitJob ==
    /\ InitFrom(0, 0, {}, {})
    /\ volume = {}
    /\ \E questions \in 0..MaxQuestions, status \in {"pending", "cancelled"} :
           /\ lakebase = LakebaseRow(status)
           /\ job = NewJob("start", questions, status = "cancelled")

NextJob ==
    \/ RunMarkRunning
    \/ RunAddProgress
    \/ RunCheckCancellation
    \/ RunWriteOutput
    \/ RunWriteOutputFault
    \/ RunMarkCompleted
    \/ RunMarkFailed
    \/ ExternalCancel

JobSpec == InitJob /\ [][NextJob]_vars

\* ============================================================ properties

AllowedTransitions ==
    {<<"pending", "running">>} \cup {<<"running", s>> : s \in Terminal}

\* C1: a task is stored as PENDING, and its stored status changes only
\* along PENDING -> RUNNING and RUNNING -> {COMPLETED, FAILED, CANCELLED}.
C1_OnlyLifecycleTransitions ==
    [][\A t \in DOMAIN tasks' :
          IF t \in DOMAIN tasks
          THEN \/ tasks'[t].status = tasks[t].status
               \/ <<tasks[t].status, tasks'[t].status>> \in AllowedTransitions
          ELSE tasks'[t].status = "pending"]_vars

\* C2: once the stored status of a task is terminal, no later step changes
\* its status or its completed_at.
C2_TerminalIsFinal ==
    [][\A t \in DOMAIN tasks :
          tasks[t].status \in Terminal
              => /\ tasks'[t].status = tasks[t].status
                 /\ tasks'[t].completed_at = tasks[t].completed_at]_vars

\* the terminal events a queue has received: those still in it and those
\* relayed from it
RECURSIVE Terminals(_)
Terminals(events) ==
    IF events = <<>> THEN 0
    ELSE (IF IsTerminalEvent(Head(events)) THEN 1 ELSE 0) + Terminals(Tail(events))

RECURSIVE RelayedTerminals(_, _)
RelayedTerminals(q, o) ==
    IF o = 0 THEN 0
    ELSE (IF observers[o].q = q THEN Terminals(observers[o].received) ELSE 0)
         + RelayedTerminals(q, o - 1)

TerminalsOf(q) == Terminals(queues[q]) + RelayedTerminals(q, Len(observers))

\* C3: when cancel_task returns True the stored status is CANCELLED with
\* completed_at set, and no queue ever receives more than one terminal
\* event.
C3_CancelOnceTerminal ==
    /\ \A c \in DOMAIN cancels :
          cancels[c].result
              => /\ GetTask(cancels[c].task).status \in {"cancelled", "absent"}
                 /\ Exists(GetTask(cancels[c].task))
                        => GetTask(cancels[c].task).completed_at # 0
    /\ \A q \in DOMAIN queues : TerminalsOf(q) <= 1

\* C4: a cancel_task call for an id that is not in the running-task registry
\* returns False (answered 400) and changes neither the Store, nor a
\* registry, nor a queue, nor a coroutine.
C4_CancelNotRunningIsNoop ==
    [][\A t \in TaskIds :
          (/\ Len(cancels') = Len(cancels) + 1
           /\ cancels'[Len(cancels')].task = t
           /\ running_tasks[t] = 0)
              => /\ cancels'[Len(cancels')].pc = "done"
                 /\ cancels'[Len(cancels')].result = FALSE
                 /\ cancels'[Len(cancels')].status_code = 400
                 /\ UNCHANGED <<store, running_tasks, task_streams, queues,
                                runners, observers>>]_vars

\* a cancel_task call was rejected for a task whose stored status is terminal
C4_Witness ==
    \E c \in DOMAIN cancels :
        /\ cancels[c].pc = "done"
        /\ ~cancels[c].result
        /\ cancels[c].status_code = 400
        /\ GetTask(cancels[c].task).status \in Terminal

\* C5: no coroutine is spawned for a task that is in the running-task
\* registry or whose stored status is terminal, and such a start_task leaves
\* both registries and the queues as they are.
C5_StartIsIdempotent ==
    [][\A t \in TaskIds :
          (/\ Len(runners') = Len(runners) + 1
           /\ runners'[Len(runners')].task = t)
              => /\ running_tasks[t] = 0
                 /\ GetTask(t).status \notin Terminal]_vars

\* C6: a task whose coroutine has returned has a terminal stored status.
C6_ReturnedRunnerLeftTerminal ==
    \A r \in DOMAIN runners :
        (runners[r].pc = "done" /\ Exists(GetTask(runners[r].task)))
            => GetTask(runners[r].task).status \in Terminal

\* no coroutine and no cancel_task call is at work on task t
Quiet(t) ==
    /\ \A r \in DOMAIN runners : runners[r].task = t => ~Alive(r)
    /\ \A c \in DOMAIN cancels : cancels[c].task = t => cancels[c].pc = "done"

\* C7: an observer does not wait on a queue that holds no done or error
\* event when nothing is at work on its task any more.
C7_ObserverGetsTerminalEvent ==
    \A o \in DOMAIN observers :
        (observers[o].pc = "listening" /\ Quiet(observers[o].task))
            => Terminals(queues[observers[o].q]) > 0

\* C8: a task stored as COMPLETED has progress 1.0, and started_at and
\* completed_at set with completed_at >= started_at.
C8_CompletedIsWhole ==
    \A t \in DOMAIN tasks :
        tasks[t].status = "completed"
            => /\ tasks[t].progress = ProgressComplete
               /\ tasks[t].started_at # 0
               /\ tasks[t].completed_at # 0
               /\ tasks[t].completed_at >= tasks[t].started_at

\* C9: while a task is RUNNING its stored progress never decreases and never
\* exceeds 0.9.
C9_ProgressMonotoneWhileRunning ==
    [][\A t \in DOMAIN tasks :
          (tasks[t].status = "running" /\ tasks'[t].status = "running")
              => /\ tasks'[t].progress >= tasks[t].progress
                 /\ tasks'[t].progress <= ProgressCap]_vars

IsProgressEvent(e) == e.type = "progress"

\* C10: for a task driven by its coroutine alone, the k-th progress value
\* written to the Store and pushed to the queue is min(0.9, 0.1 * k), with
\* the message "Using {tool_name}...", and once the done event is handled
\* the task is COMPLETED with progress 1.0.
C10_SoloProgressSequence ==
    \A r \in DOMAIN runners :
        LET t == runners[r].task
            log == queues[task_streams[t]]
            pushed == SelectSeq(log, IsProgressEvent)
        IN /\ \A k \in 1..Len(pushed) :
                 /\ pushed[k].progress = Min(ProgressCap, ProgressStep * k)
                 /\ \E tool_name \in ToolNames :
                        pushed[k].message = "Using " \o tool_name \o "..."
           /\ RunnerAt(r, "progress_notify")
                 => /\ tasks[t].progress
                           = Min(ProgressCap, ProgressStep * (Len(pushed) + 1))
                    /\ tasks[t].progress_message = runners[r].arg
                    /\ \E tool_name \in ToolNames :
                           runners[r].arg = "Using " \o tool_name \o "..."
           /\ (/\ log # <<>>
               /\ log[Len(log)] = DoneEvent("completed")
               /\ runners[r].pc \in {"loop", "done"})
                 => /\ tasks[t].status = "completed"
                    /\ tasks[t].progress = ProgressComplete

\* ten tool_use events, then done: the tenth progress value is the cap
C10_Witness ==
    \E t \in DOMAIN tasks :
        LET log == queues[task_streams[t]] IN
        /\ Len(log) = 11
        /\ \A k \in 1..10 : log[k].type = "progress"
        /\ log[2].progress = 2
        /\ log[10].progress = ProgressCap
        /\ log[11] = DoneEvent("completed")
        /\ tasks[t].status = "completed"
        /\ tasks[t].progress = ProgressComplete

\* the queue events of the worker events emitted for task t, in the order
\* of emission
EmittedFor(t) ==
    LET OfTask(x) == x.task = t
        sel == SelectSeq(emitted, OfTask)
    IN [i \in 1..Len(sel) |-> sel[i].event]

\* a queue event that stands for a worker event
FromWorker(e) ==
    \/ e.type = "progress"
    \/ e = DoneEvent("completed")
    \/ e.type = "error" /\ e.message \in ErrorMessages

RECURSIVE IsSubsequence(_, _)
IsSubsequence(a, b) ==
    IF a = <<>> THEN TRUE
    ELSE IF b = <<>> THEN FALSE
    ELSE IF Head(a) = Head(b) THEN IsSubsequence(Tail(a), Tail(b))
    ELSE IsSubsequence(a, Tail(b))

\* C11: the events an observer has dequeued that stand for worker events
\* appear in the order in which the worker events were emitted, none of
\* them twice, and a done or error event is the last one dequeued.
C11_DequeuedInEmissionOrder ==
    \A o \in DOMAIN observers :
        observers[o].q # 0
            => /\ IsSubsequence(SelectSeq(observers[o].received, FromWorker),
                                EmittedFor(observers[o].task))
               /\ \A i \in 1..Len(observers[o].received) :
                      IsTerminalEvent(observers[o].received[i])
                          => i = Len(observers[o].received)

\* C12: right after a scan has registered its rows, a scan for the same
\* session over the same directory finds nothing to register, and this
\* stays so while the directory is unchanged.
C12_SecondScanAddsNothing ==
    [][\A r \in DOMAIN runners :
          LET t == runners[r].task
              s == runners[r].sess
          IN /\ (runners[r].pc = "scan_commit" /\ runners'[r].pc = "complete"
                 /\ disk' = disk)
                    => (disk \ ExistingPaths(s))' = {}
             /\ (s # None /\ disk \ ExistingPaths(s) = {} /\ disk' = disk)
                    => (disk \ ExistingPaths(s))' = {}
             /\ (runners[r].pc = "loop" /\ runners'[r].pc = "scan_commit"
                 /\ disk \ ExistingPaths(s) = {})
                    => runners'[r].adds = {}]_vars

\* a second scan over a directory with files in it has found nothing new
C12_Witness ==
    \E r \in DOMAIN runners :
        /\ runners[r].pc = "scan_commit"
        /\ runners[r].adds = {}
        /\ disk = OutputDir
        /\ \E i \in DOMAIN emitted :
               /\ i < Len(emitted)
               /\ emitted[i].event = DoneEvent("completed")
               /\ GetTask(emitted[i].task).session_id = runners[r].sess

\* C13: the Store holds at most one OutputFile row per (session_id,
\* filepath).
C13_OneRowPerSessionPath ==
    \A i, j \in DOMAIN output_files :
        (/\ output_files[i].session_id = output_files[j].session_id
         /\ output_files[i].filepath = output_files[j].filepath)
            => i = j

\* C14: once the worker of a task has emitted error(m), the task is stored
\* as FAILED with error_message m and completed_at set; when the coroutine
\* has returned, the last event put on the queue is the error event with m,
\* the task has left the running-task registry, and no other coroutine was
\* spawned for it.
C14_ErrorEventFailsTask ==
    \A r \in DOMAIN runners, i \in DOMAIN emitted :
        LET t == runners[r].task
            e == emitted[i].event
            log == queues[task_streams[t]]
        IN (emitted[i].task = t /\ e.type = "error")
              => /\ runners[r].pc \in {"fail_notify", "done"}
                 /\ tasks[t].status = "failed"
                 /\ tasks[t].error_message = e.message
                 /\ tasks[t].completed_at # 0
                 /\ runners[r].pc = "done"
                       => /\ log # <<>>
                          /\ log[Len(log)] = ErrorEvent(e.message)
                          /\ running_tasks[t] = 0
                          /\ \A r2 \in DOMAIN runners :
                                 runners[r2].task = t => r2 = r

\* a task failed by its worker's error event, after a progress event
C14_Witness ==
    \E r \in DOMAIN runners :
        LET t == runners[r].task
            log == queues[task_streams[t]]
        IN /\ runners[r].pc = "done"
           /\ Len(log) = 2
           /\ log[1].type = "progress"
           /\ log[2] = ErrorEvent("rate limited")
           /\ tasks[t].status = "failed"
           /\ tasks[t].error_message = "rate limited"
           /\ running_tasks[t] = 0

\* C15: at most one coroutine of run_research_task is alive per task.
C15_OneRunnerPerTask ==
    \A r1, r2 \in DOMAIN runners :
        (/\ runners[r1].task = runners[r2].task
         /\ Alive(r1)
         /\ Alive(r2))
            => r1 = r2

\* C16: a stream request that read a terminal task emits the content event
\* when the task read has a content snapshot, and none otherwise, then one
\* done event with the status and the error message read, and closes; it
\* changes no coroutine, no queue, no registry and nothing in the Store.
C16_TerminalTaskIsReplayed ==
    [][\A o \in DOMAIN observers' :
          IF o \notin DOMAIN observers
          THEN /\ observers'[o].snap = GetTask(observers'[o].task)
               /\ observers'[o].received = <<>>
               /\ UNCHANGED <<store, runners, queues, task_streams,
                              running_tasks>>
          ELSE (/\ observers[o].pc = "dispatch"
                /\ observers[o].snap.status \in Terminal
                /\ observers'[o] # observers[o])
                  => LET row == observers[o].snap
                         final == [type |-> "done", status |-> row.status,
                                   error |-> row.error_message]
                         content == [type |-> "content",
                                     text |-> row.last_streamed_content]
                     IN /\ observers'[o].pc = "closed"
                        /\ observers'[o].received =
                               IF row.last_streamed_content = <<>>
                               THEN <<final>>
                               ELSE <<content, final>>
                        /\ UNCHANGED <<store, runners, queues, task_streams,
                                       running_tasks>>]_vars

\* a terminal task with a content snapshot was replayed
C16_Witness ==
    \E o \in DOMAIN observers :
        /\ observers[o].pc = "closed"
        /\ observers[o].q = 0
        /\ Len(observers[o].received) = 2
        /\ observers[o].received[1].type = "content"
        /\ observers[o].received[1].text # <<>>
        /\ observers[o].received[2].type = "done"
        /\ observers[o].received[2].status \in Terminal

\* C17: a stream request for an id for which create_task made no task emits
\* one error event and closes, and changes no queue, no registry, no
\* coroutine and nothing in the Store.
C17_UnknownTaskIsRejected ==
    [][\A o \in DOMAIN observers' :
          IF o \notin DOMAIN observers
          THEN observers'[o].task \notin DOMAIN tasks
                  => /\ ~Exists(observers'[o].snap)
                     /\ UNCHANGED <<store, runners, queues, task_streams,
                                    running_tasks>>
          ELSE (/\ observers[o].pc = "dispatch"
                /\ ~Exists(observers[o].snap)
                /\ observers'[o] # observers[o])
                  => /\ observers'[o].pc = "closed"
                     /\ observers'[o].received =
                            <<[type |-> "error", message |-> "Task not found"]>>
                     /\ UNCHANGED <<store, runners, queues, task_streams,
                                    running_tasks>>]_vars

\* the stream of an unknown id was closed with the error event, while a
\* task exists
C17_Witness ==
    \E o \in DOMAIN observers :
        /\ observers[o].pc = "closed"
        /\ observers[o].task \notin DOMAIN tasks
        /\ observers[o].received = <<ErrorEvent("Task not found")>>
        /\ tasks # <<>>

\* the request answered in this step
Answered == posts'[Len(posts')]

\* the task of the request answered in this step is stored, and it is the
\* only change of the task rows
StoredByPost ==
    /\ Answered.task_id = Len(tasks) + 1
    /\ Len(tasks') = Len(tasks) + 1
    /\ \A t \in DOMAIN tasks : tasks'[t] = tasks[t]

\* start_task ran for the task of the request answered in this step
StartedByPost ==
    LET t == Answered.task_id IN
    /\ Len(runners') = Len(runners) + 1
    /\ runners'[Len(runners')].task = t
    /\ running_tasks'[t] = Len(runners')
    /\ Len(queues') = Len(queues) + 1
    /\ task_streams'[t] = Len(queues')

\* C18: the create_task of a POST /tasks stores a new task that is PENDING
\* with progress 0 and owned by the session named in the request; the
\* Session row is added when absent and no existing Session row changes;
\* create_task alone (mode live) changes no registry, queue or coroutine.
C18_CreateTaskStoresPending ==
    [][(Len(posts') = Len(posts) + 1 /\ Answered.status_code = 200)
          => LET s == Answered.session_id
                 t == Answered.task_id
             IN /\ StoredByPost
                /\ tasks'[t].status = "pending"
                /\ tasks'[t].progress = 0
                /\ tasks'[t].session_id = s
                /\ tasks'[t].started_at = 0
                /\ tasks'[t].completed_at = 0
                /\ sessions \subseteq sessions'
                /\ \E row \in sessions' : row.id = s
                /\ \A row \in sessions' \ sessions :
                       /\ row.id = s
                       /\ \A old \in sessions : old.id # s
                /\ output_files' = output_files
                /\ Answered.mode = "live"
                      => UNCHANGED <<running_tasks, task_streams, queues,
                                     runners>>]_vars

\* a second task was created in a Session made by an earlier request, and
\* the Session row is as it was
C18_Witness ==
    /\ Len(tasks) = 2
    /\ sessions = {[id |-> tasks[2].session_id, created_at |-> 0]}
    /\ now > 1
    /\ \E i \in DOMAIN posts : posts[i].mode = "live" /\ posts[i].task_id = 2

\* C19 as stated: every POST /tasks with a session_id and a prompt stores
\* the task, spawns its coroutine and allocates its queue.
C19_PostStartsTask ==
    [][(/\ Len(posts') = Len(posts) + 1
        /\ Answered.session_id # None
        /\ Answered.prompt # None)
          => /\ Answered.status_code = 200
             /\ StoredByPost
             /\ StartedByPost]_vars

\* C19 amended: every POST /tasks with a session_id and a prompt stores the
\* task; with mode "background" its coroutine is spawned and its queue
\* allocated in the same step, with any other mode the task is left PENDING
\* and nothing is spawned or registered.
C19_PostStartsBackgroundTask ==
    [][(/\ Len(posts') = Len(posts) + 1
        /\ Answered.session_id # None
        /\ Answered.prompt # None)
          => /\ Answered.status_code = 200
             /\ StoredByPost
             /\ IF Answered.mode = "background"
                THEN StartedByPost
                ELSE /\ tasks'[Answered.task_id].status = "pending"
                     /\ UNCHANGED <<running_tasks, task_streams, queues,
                                    runners>>]_vars

\* one task was posted in background mode and is registered, another was
\* posted in live mode and is not
C19_Witness ==
    \E i, j \in DOMAIN posts :
        /\ posts[i].mode = "background"
        /\ running_tasks[posts[i].task_id] # 0
        /\ task_streams[posts[i].task_id] # 0
        /\ posts[j].mode = "live"
        /\ posts[j].status_code = 200
        /\ running_tasks[posts[j].task_id] = 0
        /\ task_streams[posts[j].task_id] = 0

\* C20: a POST /tasks without session_id or without prompt is answered with
\* 400 and changes nothing in the Store, the registries, the queues and the
\* coroutines.
C20_InvalidPostChangesNothing ==
    [][(/\ Len(posts') = Len(posts) + 1
        /\ Answered.session_id = None \/ Answered.prompt = None)
          => /\ Answered.status_code = 400
             /\ Answered.task_id = 0
             /\ UNCHANGED <<store, running_tasks, task_streams, queues,
                            runners>>]_vars

\* a request without prompt was answered with 400 while a task is running
C20_Witness ==
    \E i \in DOMAIN posts :
        /\ posts[i].status_code = 400
        /\ posts[i].prompt = None
        /\ posts[i].session_id # None
        /\ \E t \in DOMAIN tasks : tasks[t].status = "running"

\* C21: every ResearchTask row and every OutputFile row of the Store
\* references a Session row of the Store.
C21_RowsReferenceSession ==
    /\ \A t \in DOMAIN tasks :
           Exists(tasks[t])
               => \E row \in sessions : row.id = tasks[t].session_id
    /\ \A i \in DOMAIN output_files :
           \E row \in sessions : row.id = output_files[i].session_id

\* no stream request for task t is open
Unobserved(t) ==
    \A o \in DOMAIN observers :
        observers[o].task = t => observers[o].pc = "closed"

\* C22: once the stored status of a task is terminal and nothing is at work
\* on the task any more (no coroutine, no cancel_task call, no open stream
\* request), its queue has been removed from the queue registry.
C22_TerminalQueueRetired ==
    \A t \in DOMAIN tasks :
        (tasks[t].status \in Terminal /\ Quiet(t) /\ Unobserved(t))
            => task_streams[t] = 0

\* C23: a step of a live stream either relays the event at the head of its
\* queue, and ends exactly when that event is done or error, or ends by
\* disconnect; when it ends the task has no entry in the queue registry, and
\* the step changes neither the running-task registry, nor the Store, nor a
\* coroutine, nor the queue entry of another task.
C23_LiveStreamRelaysAndCleansUp ==
    [][\A o \in DOMAIN observers :
          (observers[o].pc = "listening" /\ observers'[o] # observers[o])
              => LET q == observers[o].q
                     t == observers[o].task
                     relayed == /\ queues[q] # <<>>
                                /\ queues' = [queues EXCEPT ![q] = Tail(@)]
                                /\ observers'[o].received =
                                       Append(observers[o].received,
                                              Head(queues[q]))
                                /\ observers'[o].pc =
                                       IF Head(queues[q]).type \in {"done", "error"}
                                       THEN "closed" ELSE "listening"
                     left == /\ queues' = queues
                             /\ observers'[o].received = observers[o].received
                             /\ observers'[o].pc = "closed"
                 IN /\ relayed \/ left
                    /\ \A e \in {observers[o].received[i] :
                                     i \in DOMAIN observers[o].received} :
                           e.type \notin {"done", "error"}
                    /\ IF observers'[o].pc = "closed"
                       THEN /\ task_streams'[t] = 0
                            /\ \A t2 \in TaskIds \ {t} :
                                   task_streams'[t2] = task_streams[t2]
                       ELSE task_streams' = task_streams
                    /\ UNCHANGED <<store, running_tasks, runners>>]_vars

\* a live stream relayed a progress event and then the error event, and
\* ended; the queue of its task is out of the registry
C23_Witness ==
    \E o \in DOMAIN observers :
        /\ observers[o].pc = "closed"
        /\ observers[o].q # 0
        /\ Len(observers[o].received) = 2
        /\ observers[o].received[1].type = "progress"
        /\ observers[o].received[2].type = "error"
        /\ task_streams[observers[o].task] = 0
        /\ tasks[observers[o].task].status = "failed"

\* C24: the first start_task of a task for which subscribe_to_task has
\* already registered a queue leaves that queue in the registry, so that
\* the events of the coroutine are put on the queue the subscriber holds.
C24_StartKeepsSubscribedQueue ==
    [][\A t \in TaskIds :
          (/\ Len(runners') = Len(runners) + 1
           /\ runners'[Len(runners')].task = t
           /\ \A r \in DOMAIN runners : runners[r].task # t
           /\ task_streams[t] # 0)
              => /\ task_streams'[t] = task_streams[t]
                 /\ queues' = queues]_vars

\* the number of done events the worker of task t has emitted
Dones(t) ==
    LET IsDoneOf(x) == x.task = t /\ x.event.type = "done"
    IN Len(SelectSeq(emitted, IsDoneOf))

HasDone(log) ==
    \E i \in DOMAIN log : log[i] = [type |-> "done", status |-> "completed"]

\* C25: a task is stored as COMPLETED only when every file of the output
\* directory has an OutputFile row of its session; the done event is on the
\* queue only when COMPLETED is stored; and from the worker's done event
\* until the done event is pushed the task stays in the running-task
\* registry, RUNNING while the Reconciler works and COMPLETED after.
C25_ReconciledBeforeCompleted ==
    \A r \in DOMAIN runners :
        LET t == runners[r].task
            log == queues[task_streams[t]]
            registered == {output_files[i].filepath :
                              i \in {j \in DOMAIN output_files :
                                  output_files[j].session_id = tasks[t].session_id}}
        IN /\ tasks[t].status = "completed" => disk \subseteq registered
           /\ HasDone(log) => tasks[t].status = "completed"
           /\ (runners[r].pc \in {"scan_commit", "complete"} /\ Dones(t) = 1)
                 => /\ tasks[t].status = "running"
                    /\ ~HasDone(log)
                    /\ running_tasks[t] = r
           /\ (runners[r].pc = "complete_notify" /\ Dones(t) = 1)
                 => /\ tasks[t].status = "completed"
                    /\ ~HasDone(log)
                    /\ running_tasks[t] = r

\* a task completed with both files of the directory registered, the done
\* event pushed and the registry entry removed, while the other task of the
\* session is still in the Reconciler
C25_Witness ==
    \E r1, r2 \in DOMAIN runners :
        LET t == runners[r1].task IN
        /\ tasks[t].status = "completed"
        /\ HasDone(queues[task_streams[t]])
        /\ running_tasks[t] = 0
        /\ disk = OutputDir
        /\ Len(output_files) = 2
        /\ runners[r2].pc = "scan_commit"
        /\ runners[r2].task # t

HasEvent(t) ==
    \/ task_streams[t] # 0 /\ queues[task_streams[t]] # <<>>
    \/ \E o \in DOMAIN observers :
           /\ observers[o].task = t
           /\ observers[o].q # 0
           /\ \/ queues[observers[o].q] # <<>>
              \/ observers[o].received # <<>>

\* C27: a coroutine that awaits the worker has stored RUNNING with
\* started_at, and a task that has a progress or terminal event has been
\* stored as RUNNING before (started_at is written only together with
\* RUNNING).
C27_RunningBeforeEvents ==
    \A t \in DOMAIN tasks :
        Exists(tasks[t])
            => /\ \A r \in DOMAIN runners :
                      (runners[r].task = t
                       /\ runners[r].pc \notin {"start", "cancelled", "done"})
                          => tasks[t].started_at # 0
               /\ HasEvent(t) => tasks[t].started_at # 0

\* coroutine r had cancel() called on it by a cancel_task call
Signalled(r) == \E c \in DOMAIN cancels : cancels[c].runner = r

\* C28: a coroutine on which cancel_task has called cancel() has ended and
\* takes no further step, and every later change of the task rows or of a
\* queue is made by a step of a cancel_task call, of a request or of a
\* coroutine that was not signalled.
C28_CancelledRunnerIsSilent ==
    [][/\ \A r \in DOMAIN runners :
              Signalled(r)
                  => /\ runners[r].pc \in {"cancelled", "done"}
                     /\ runners'[r] = runners[r]
       /\ (cancels # <<>> /\ (tasks' # tasks \/ queues' # queues))
              => \/ cancels' # cancels
                 \/ observers' # observers
                 \/ posts' # posts
                 \/ \E r \in DOMAIN runners :
                        ~Signalled(r) /\ runners'[r] # runners[r]]_vars

\* cancel_task returned True for a task whose coroutine was cancelled after
\* a progress update; the task is CANCELLED and the queue holds the
\* progress event and the done event of the cancel path
C28_Witness ==
    \E c \in DOMAIN cancels :
        LET t == cancels[c].task
            r == cancels[c].runner
        IN /\ cancels[c].result
           /\ r # 0
           /\ runners[r].pc = "cancelled"
           /\ runners[r].tool_count = 1
           /\ tasks[t].status = "cancelled"
           /\ task_streams[t] # 0
           /\ queues[task_streams[t]] =
                  <<ProgressEvent(1, "Using WebSearch..."),
                    DoneEvent("cancelled")>>

\* C29: from the moment a cancel_task call for a task has returned True,
\* the stored status of the task is CANCELLED, and no step changes it.
C29_CancelledStaysCancelled ==
    [][\A c \in DOMAIN cancels :
          (cancels[c].result /\ cancels[c].task \in DOMAIN tasks)
              => /\ tasks[cancels[c].task].status = "cancelled"
                 /\ tasks'[cancels[c].task].status = "cancelled"]_vars

\* C30: the Store scope of cancel_task sets the status of its task to
\* CANCELLED and stamps completed_at; every other field of the row, every
\* other task row, the Session rows and the OutputFile rows are as before,
\* and the other steps of cancel_task leave the Store unchanged.
C30_CancelWritesStatusOnly ==
    [][\A c \in DOMAIN cancels' :
          IF c \notin DOMAIN cancels
          THEN UNCHANGED store
          ELSE cancels'[c] # cancels[c]
                  => IF cancels[c].pc = "scope"
                     THEN LET t == cancels[c].task IN
                          /\ UNCHANGED <<sessions, output_files>>
                          /\ DOMAIN tasks' = DOMAIN tasks
                          /\ \A t2 \in DOMAIN tasks \ {t} : tasks'[t2] = tasks[t2]
                          /\ t \in DOMAIN tasks
                                => /\ tasks'[t].status = "cancelled"
                                   /\ tasks'[t].completed_at = now
                                   /\ tasks'[t].session_id = tasks[t].session_id
                                   /\ tasks'[t].progress = tasks[t].progress
                                   /\ tasks'[t].progress_message
                                          = tasks[t].progress_message
                                   /\ tasks'[t].error_message
                                          = tasks[t].error_message
                                   /\ tasks'[t].started_at = tasks[t].started_at
                                   /\ tasks'[t].usage_stats = tasks[t].usage_stats
                                   /\ tasks'[t].total_cost_usd
                                          = tasks[t].total_cost_usd
                                   /\ tasks'[t].last_streamed_content
                                          = tasks[t].last_streamed_content
                     ELSE UNCHANGED store]_vars

\* a task was cancelled after a progress update and kept its progress, its
\* message and its started_at, while the other task is still RUNNING
C30_Witness ==
    \E c \in DOMAIN cancels :
        LET t == cancels[c].task IN
        /\ cancels[c].result
        /\ Len(tasks) = 2
        /\ tasks[t].status = "cancelled"
        /\ tasks[t].progress = 1
        /\ tasks[t].progress_message = "Using WebSearch..."
        /\ tasks[t].started_at # 0
        /\ tasks[t].completed_at # 0
        /\ tasks[3 - t].status = "running"

\* coroutine r found no row for its task in its first scope and returned
Aborted(r) == runners[r].pc = "done" /\ runners[r].sess = None

\* C31: a coroutine whose task has no Store row when its first scope runs
\* returns there: the step changes no Store row, no queue and no registry,
\* the worker emits nothing for it, and the coroutine takes no later step.
C31_AbsentTaskAborts ==
    [][\A r \in DOMAIN runners :
          /\ (runners[r].pc = "start" /\ ~Exists(GetTask(runners[r].task))
              /\ runners'[r] # runners[r])
                 => /\ Aborted(r)'
                    /\ UNCHANGED <<store, queues, task_streams, running_tasks,
                                   emitted, events_left, disk>>
          /\ Aborted(r) => runners'[r] = runners[r]]_vars

\* the Session of a posted task was deleted before its coroutine ran, and
\* the coroutine has returned from its first scope
C31_Witness ==
    \E r \in DOMAIN runners :
        /\ Aborted(r)
        /\ runners[r].task \in DOMAIN tasks
        /\ ~Exists(tasks[runners[r].task])
        /\ sessions = {}

\* the rows of a sequence
Rows(seq) == {seq[i] : i \in DOMAIN seq}

RowsFor(files, s, path) ==
    {i \in DOMAIN files :
        files[i].session_id = s /\ files[i].filepath = path}

\* C33: when a scan of the Reconciler for a session has committed, every
\* file of the output directory has exactly one OutputFile row of that
\* session with the file's relative path as filepath, and the rows that
\* were stored before the scan are unchanged.
C33_ScanRegistersEachFileOnce ==
    [][\A r \in DOMAIN runners :
          (runners[r].pc = "scan_commit" /\ runners'[r].pc = "complete")
              => /\ \A path \in disk :
                        Cardinality(RowsFor(output_files', runners[r].sess,
                                            path)) = 1
                 /\ SubSeq(output_files', 1, Len(output_files))
                        = output_files]_vars

IsPrefix(a, b) == Len(a) <= Len(b) /\ SubSeq(b, 1, Len(a)) = a

\* C34: the content stored for a task is at every moment a prefix of the
\* token texts its worker has emitted, in emission order, and in the step
\* in which the task becomes COMPLETED the stored content is all of them.
C34_ContentIsTokenConcatenation ==
    [][\A t \in DOMAIN tasks' :
          /\ IsPrefix(tasks'[t].last_streamed_content, tokens'[t])
          /\ (t \in DOMAIN tasks /\ tasks[t].status # "completed"
              /\ tasks'[t].status = "completed")
                 => tasks'[t].last_streamed_content = tokens'[t]]_vars

\* a TaskManager operation has left its Store scope and has not returned
MidOperation ==
    \/ \E r \in DOMAIN runners :
           runners[r].pc \in {"progress_notify", "complete_notify",
                              "fail_notify"}
    \/ \E c \in DOMAIN cancels : cancels[c].pc \in {"scope", "notify"}

\* C35: whenever no TaskManager operation is under way, every task id in the
\* running-task registry has a Store row whose status is PENDING or RUNNING.
C35_RegistryHoldsLiveTasks ==
    ~MidOperation
        => \A t \in TaskIds :
               running_tasks[t] # 0
                   => GetTask(t).status \in {"pending", "running"}

\* coroutine r has returned or raised, and the cancel_task call that made
\* it raise, if any, has returned
Finished(r) ==
    \/ runners[r].pc = "done"
    \/ runners[r].pc = "cancelled" /\ ~MidOperation

\* C36: once a coroutine has finished, by returning or by raising, the
\* running-task registry does not hold it any more (is_task_running is
\* false for its task unless another coroutine was registered since).
C36_FinishedRunnerDeregistered ==
    \A r \in DOMAIN runners :
        Finished(r) => running_tasks[runners[r].task] # r

\* C37: a stored task has completed_at set exactly when its status is
\* COMPLETED, FAILED or CANCELLED.
C37_CompletedAtIffTerminal ==
    \A t \in DOMAIN tasks :
        Exists(tasks[t])
            => (tasks[t].completed_at # 0 <=> tasks[t].status \in Terminal)

\* the tasks whose workers have written the file
Writers(path) == {w.task : w \in {x \in written : x.path = path}}

\* C38: an OutputFile row for a file that workers have written carries the
\* id of a task whose worker wrote the file, and the session of that task.
C38_RowNamesProducingTask ==
    \A i \in DOMAIN output_files :
        LET row == output_files[i] IN
        Writers(row.filepath) # {}
            => /\ row.task_id \in Writers(row.filepath)
               /\ row.session_id = GetTask(row.task_id).session_id

\* C39: when the stored status is cancelled as run begins, run logs no step
\* of the research, writes no output, and the stored status stays
\* cancelled.
C39_CancelledBeforeStartIsHonoured ==
    job.was_cancelled
        => /\ lakebase.status = "cancelled"
           /\ volume = {}
           /\ \A i \in DOMAIN lakebase.progress :
                  lakebase.progress[i] \in {"started", "cancelled"}

\* C40: once the stored status has been set to cancelled while run
\* executes, no step of the job stores completed.
C40_CancelledNeverCompleted ==
    [][(job.pc \notin {"idle", "start"} /\ lakebase.status = "cancelled")
          => lakebase'.status # "completed"]_vars

====
